---- MODULE Spec2Model ----
(***************************************************************************)
(* Model of torchqf.model.factor_model.FactorModel: one instance with the  *)
(* operations fit, forward and fit_forward, driven by a caller that holds  *)
(* two tensors, `input` (asset returns) and `factors` (factor returns).    *)
(*                                                                         *)
(* Tensors are records [shape, data]: shape is the tuple of dimension      *)
(* sizes, data the entries in row-major order.  Entries are exact          *)
(* rationals <<numerator, denominator>> in lowest terms; the floating-     *)
(* point rounding of the tensor library is abstracted to exact arithmetic, *)
(* so "zero up to numerical tolerance" reads as "exactly zero" here.       *)
(***************************************************************************)
EXTENDS Integers, Sequences, FiniteSets, TLC

VARIABLES beta, input, factors, op, err, at, result, prior

vars == <<beta, input, factors, op, err, at, result, prior>>

(***************************************************************************)
(* Bounds of the caller's tensors.                                         *)
(***************************************************************************)
MaxA == 2
MaxF == 2
MaxT == 3
MaxRank == 3

\* "no value": an instance attribute that was never set, or no return value
None == [kind |-> "none"]

\* the FactorModel instance itself, as a returned reference
SelfRef == [kind |-> "self"]

(***************************************************************************)
(* Exact rational arithmetic.                                              *)
(***************************************************************************)
Abs(n) == IF n < 0 THEN -n ELSE n

RECURSIVE Gcd(_, _)
Gcd(a, b) == IF b = 0 THEN a ELSE Gcd(b, a % b)

Rat(n, d) ==
    LET g == Gcd(Abs(n), Abs(d))
        s == IF d < 0 THEN -1 ELSE 1
    IN  <<(s * n) \div g, (s * d) \div g>>

RZero == <<0, 1>>
ROne == <<1, 1>>
RAdd(x, y) == Rat(x[1] * y[2] + y[1] * x[2], x[2] * y[2])
RSub(x, y) == Rat(x[1] * y[2] - y[1] * x[2], x[2] * y[2])
RMul(x, y) == Rat(x[1] * y[1], x[2] * y[2])
RDiv(x, y) == Rat(x[1] * y[2], x[2] * y[1])

RECURSIVE RSum(_)
\* sum of a sequence of rationals
RSum(s) == IF s = <<>> THEN RZero ELSE RAdd(Head(s), RSum(Tail(s)))

RECURSIVE Prod(_)
Prod(s) == IF s = <<>> THEN 1 ELSE Head(s) * Prod(Tail(s))

(***************************************************************************)
(* Tensors.                                                                *)
(***************************************************************************)
\* a tensor from its shape and its entries, a function on 1..Prod(shape)
\* (kept as an explicit sequence, hence the \o <<>>)
Tensor(shape, entries) ==
    [kind |-> "tensor", shape |-> shape, data |-> entries \o <<>>]

ndim(t) == Len(t.shape)

\* Tensor.size(-1); only defined when the tensor has a dimension
SizeLast(t) == t.shape[Len(t.shape)]

Rows(m) == m.shape[1]
Cols(m) == m.shape[2]
At(m, i, j) == m.data[(i - 1) * m.shape[2] + j]

\* a 2-D tensor from its entries, a function on (1..r) \X (1..c)
Matrix(r, c, entry) ==
    Tensor(<<r, c>>,
           [k \in 1..(r * c) |-> entry[((k - 1) \div c) + 1, ((k - 1) % c) + 1]])

\* Tensor.t() and Tensor.transpose(-2, -1) of a 2-D tensor
Transpose(m) ==
    Matrix(Cols(m), Rows(m), [i \in 1..Cols(m), j \in 1..Rows(m) |-> At(m, j, i)])

\* torch.mm accepts two 2-D tensors of shapes (n, m) and (m, p)
MmAccepts(sa, sb) == Len(sa) = 2 /\ Len(sb) = 2 /\ sa[2] = sb[1]

\* torch.mm of two tensors it accepts
MatMul(a, b) ==
    Matrix(Rows(a), Cols(b),
           [i \in 1..Rows(a), j \in 1..Cols(b) |->
               RSum([k \in 1..Cols(a) |-> RMul(At(a, i, k), At(b, k, j))])])

\* a tensor of the given shape with every entry zero
Zeros(shape) == Tensor(shape, [k \in 1..Prod(shape) |-> RZero])

(***************************************************************************)
(* Gauss-Jordan elimination over the rationals: the reduced row echelon    *)
(* form of m from pivot row r and column c on, with the pivot columns.     *)
(***************************************************************************)
Min(S) == CHOOSE x \in S : \A y \in S : x <= y

RECURSIVE Rref(_, _, _, _)
Rref(m, r, c, pivots) ==
    IF c > Cols(m) \/ r > Rows(m)
    THEN [mat |-> m, pivots |-> pivots]
    ELSE LET cand == {i \in r..Rows(m) : At(m, i, c) # RZero}
         IN  IF cand = {}
             THEN Rref(m, r, c + 1, pivots)
             ELSE LET p == Min(cand)
                      piv == At(m, p, c)
                      Sw(i, j) == At(m, IF i = r THEN p ELSE IF i = p THEN r ELSE i, j)
                      new == [i \in 1..Rows(m), j \in 1..Cols(m) |->
                                 IF i = r
                                 THEN RDiv(Sw(r, j), piv)
                                 ELSE RSub(Sw(i, j),
                                           RMul(Sw(i, c), RDiv(Sw(r, j), piv)))]
                  IN  Rref(Matrix(Rows(m), Cols(m), new), r + 1, c + 1,
                           Append(pivots, c))

\* inverse of an invertible square matrix, from the echelon form of [m | I]
Inverse(m) ==
    LET n == Rows(m)
        aug == Matrix(n, 2 * n,
                      [i \in 1..n, j \in 1..(2 * n) |->
                          IF j <= n THEN At(m, i, j)
                          ELSE IF j - n = i THEN ROne ELSE RZero])
        rr == Rref(aug, 1, 1, <<>>).mat
    IN  Matrix(n, n, [i \in 1..n, j \in 1..n |-> At(rr, i, n + j)])

(***************************************************************************)
(* torch.linalg.pinv: the Moore-Penrose pseudo-inverse of a 2-D tensor of  *)
(* any rank, from the rank factorisation x = C R (C the pivot columns of   *)
(* x, R the nonzero rows of its echelon form):                             *)
(*     pinv(x) = R^T (R R^T)^-1 (C^T C)^-1 C^T.                            *)
(***************************************************************************)
Pinv(x) ==
    LET rr == Rref(x, 1, 1, <<>>)
        k == Len(rr.pivots)
        C == Matrix(Rows(x), k,
                    [i \in 1..Rows(x), j \in 1..k |-> At(x, i, rr.pivots[j])])
        R == Matrix(k, Cols(x), [i \in 1..k, j \in 1..Cols(x) |-> At(rr.mat, i, j)])
    IN  IF k = 0
        THEN Zeros(<<Cols(x), Rows(x)>>)
        ELSE MatMul(MatMul(Transpose(R), Inverse(MatMul(R, Transpose(R)))),
                    MatMul(Inverse(MatMul(Transpose(C), C)), Transpose(C)))

(***************************************************************************)
(* Elementwise subtraction with the tensor library's broadcasting: shapes  *)
(* are aligned at their last dimension, and a dimension of size 1 (or a    *)
(* missing leading dimension) is stretched to the other operand's size.    *)
(***************************************************************************)
Max(a, b) == IF a >= b THEN a ELSE b

PadShape(s, n) == [i \in 1..n |-> IF i <= n - Len(s) THEN 1 ELSE s[i - (n - Len(s))]]

Broadcastable(s1, s2) ==
    LET n == Max(Len(s1), Len(s2))
        a == PadShape(s1, n)
        b == PadShape(s2, n)
    IN  \A i \in 1..n : a[i] = b[i] \/ a[i] = 1 \/ b[i] = 1

BroadcastShape(s1, s2) ==
    LET n == Max(Len(s1), Len(s2))
        a == PadShape(s1, n)
        b == PadShape(s2, n)
    IN  [i \in 1..n |-> Max(a[i], b[i])]

RECURSIVE Unflatten(_, _)
\* the index tuple (1-based) of the entry at row-major offset k0 (0-based)
Unflatten(shape, k0) ==
    IF shape = <<>> THEN <<>>
    ELSE LET p == Prod(Tail(shape))
         IN  <<(k0 \div p) + 1>> \o Unflatten(Tail(shape), k0 % p)

RECURSIVE Offset(_, _)
Offset(shape, idx) ==
    IF shape = <<>> THEN 0
    ELSE (Head(idx) - 1) * Prod(Tail(shape)) + Offset(Tail(shape), Tail(idx))

\* the entry of t that index idx of the broadcast shape reads
BroadcastAt(t, idx) ==
    LET off == Len(idx) - Len(t.shape)
        tidx == [d \in 1..Len(t.shape) |-> IF t.shape[d] = 1 THEN 1 ELSE idx[d + off]]
    IN  t.data[Offset(t.shape, tidx) + 1]

Sub(a, b) ==
    LET rs == BroadcastShape(a.shape, b.shape)
    IN  Tensor(rs, [k \in 1..Prod(rs) |->
                       RSub(BroadcastAt(a, Unflatten(rs, k - 1)),
                            BroadcastAt(b, Unflatten(rs, k - 1)))])

(***************************************************************************)
(* The caller's tensors.  `input` and `factors` are drawn from two small   *)
(* families, one tensor per shape: scalars, vectors, (rows, T) matrices    *)
(* and batches of two one-row matrices.  The factor family holds a zero    *)
(* matrix (1, 1), rank-deficient matrices (2, 1) and (2, 2) and full-row-  *)
(* rank matrices (1, 2), (1, 3) and (2, 3).                                *)
(***************************************************************************)
RECURSIVE Twos(_)
Twos(n) == IF n = 0 THEN <<>> ELSE <<2>> \o Twos(n - 1)

Shapes(maxRows) ==
    {<<>>}
    \cup {<<t>> : t \in 1..MaxT}
    \cup {<<r, t>> : r \in 1..maxRows, t \in 1..MaxT}
    \cup {Twos(n - 2) \o <<1, t>> : n \in 3..MaxRank, t \in 1..MaxT}

AssetReturns(shape) ==
    Tensor(shape, [k \in 1..Prod(shape) |-> Rat((((k + 2) * k) % 5) - 2, 1)])

FactorReturns(shape) ==
    Tensor(shape, [k \in 1..Prod(shape) |-> Rat((((k + 1) * k) % 5) - 2, 1)])

InputTensors == {AssetReturns(s) : s \in Shapes(MaxA)}
FactorTensors == {FactorReturns(s) : s \in Shapes(MaxF)}

(***************************************************************************)
(* FactorModel.  Each operation is a function of the instance's beta and   *)
(* the two arguments to a record: err is "ok" or the failure, at the       *)
(* statement that failed, beta the instance's beta afterwards, ret the     *)
(* returned value.                                                         *)
(***************************************************************************)
Raise(e, where, b) == [err |-> e, at |-> where, beta |-> b, ret |-> None]

\* fault: the time-step assertion is missing
FitCheckNoStepAssert(x, f) ==
    IF ndim(x) # 2 THEN <<"UnsupportedRank", "assert_input_ndim">>
    ELSE IF ndim(f) # 2 THEN <<"UnsupportedRank", "assert_factors_ndim">>
    ELSE <<"ok", "none">>

\* fault: both rank assertions made before the time-step assertion
FitCheckRankFirst(x, f) ==
    IF ndim(x) # 2 THEN <<"UnsupportedRank", "assert_input_ndim">>
    ELSE IF ndim(f) # 2 THEN <<"UnsupportedRank", "assert_factors_ndim">>
    ELSE IF SizeLast(x) # SizeLast(f) THEN <<"ShapeMismatch", "assert_steps">>
    ELSE <<"ok", "none">>

\* the three assertions of fit, in the order the code makes them
FitCheck(x, f) ==
    IF ndim(x) = 0 \/ ndim(f) = 0 THEN <<"IndexError", "size">>
    ELSE IF SizeLast(x) # SizeLast(f) THEN <<"ShapeMismatch", "assert_steps">>
    ELSE IF ndim(x) # 2 THEN <<"UnsupportedRank", "assert_input_ndim">>
    ELSE IF ndim(f) # 2 THEN <<"UnsupportedRank", "assert_factors_ndim">>
    ELSE <<"ok", "none">>

\* fault: the Gram matrix is never inverted, beta = X^T y
FitBetaNoPinv(x, f) == MatMul(f, Transpose(x))

\* beta : (F, T) @ (T, A) = (F, A)
FitBeta(x, f) ==
    LET X == Transpose(f)
        y == Transpose(x)
    IN  MatMul(Pinv(X), y)

\* fault: a beta already stored is kept
StoreBetaKeepFirst(old, new) == IF old.kind = "tensor" THEN old ELSE new

\* self.beta = beta
StoreBeta(old, new) == new

\* return self
FitReturn == SelfRef

\* fault: fit clears the stored beta before it validates its inputs
fitResetFirst(b, x, f) ==
    LET chk == FitCheck(x, f)
    IN  IF chk[1] # "ok"
        THEN Raise(chk[1], chk[2], None)
        ELSE IF ~MmAccepts(<<Rows(f), Cols(f)>>, <<Cols(x), Rows(x)>>)
        THEN Raise("DimensionMismatch", "mm", None)
        ELSE [err |-> "ok", at |-> "none",
              beta |-> StoreBeta(b, FitBeta(x, f)), ret |-> FitReturn]

\* assertions, then torch.mm(pinv(X), y) on shapes (F, T of factors) and
\* (T of input, A), then the assignment and the return
fit(b, x, f) ==
    LET chk == FitCheck(x, f)
    IN  IF chk[1] # "ok"
        THEN Raise(chk[1], chk[2], b)
        ELSE IF ~MmAccepts(<<Rows(f), Cols(f)>>, <<Cols(x), Rows(x)>>)
        THEN Raise("DimensionMismatch", "mm", b)
        ELSE [err |-> "ok", at |-> "none",
              beta |-> StoreBeta(b, FitBeta(x, f)), ret |-> FitReturn]

\* factor_return = torch.mm(self.beta.t(), factors); return input - factor_return
Residual(b, x, f) == Sub(x, MatMul(Transpose(b), f))

\* fault: a missing beta is read as zero loadings, so the input comes back
forwardDefaultBeta(b, x, f) ==
    IF b.kind = "none" THEN [err |-> "ok", at |-> "none", beta |-> b, ret |-> x]
    ELSE IF ~MmAccepts(<<Cols(b), Rows(b)>>, f.shape)
         THEN Raise("DimensionMismatch", "mm", b)
    ELSE IF ~Broadcastable(x.shape, <<Cols(b), Cols(f)>>)
         THEN Raise("DimensionMismatch", "sub", b)
    ELSE [err |-> "ok", at |-> "none", beta |-> b, ret |-> Residual(b, x, f)]

\* fault: the factors argument is validated before beta is read
forwardArgsFirst(b, x, f) ==
    IF ndim(f) # 2 THEN Raise("DimensionMismatch", "mm", b)
    ELSE IF b.kind = "none" THEN Raise("AttributeError", "beta", b)
    ELSE IF ~MmAccepts(<<Cols(b), Rows(b)>>, f.shape)
         THEN Raise("DimensionMismatch", "mm", b)
    ELSE IF ~Broadcastable(x.shape, <<Cols(b), Cols(f)>>)
         THEN Raise("DimensionMismatch", "sub", b)
    ELSE [err |-> "ok", at |-> "none", beta |-> b, ret |-> Residual(b, x, f)]

\* fault: beta is transposed in place (t_ for t), so forward rewrites it
forwardInPlace(b, x, f) ==
    IF b.kind = "none" THEN Raise("AttributeError", "beta", b)
    ELSE IF ~MmAccepts(<<Cols(b), Rows(b)>>, f.shape)
         THEN Raise("DimensionMismatch", "mm", Transpose(b))
    ELSE IF ~Broadcastable(x.shape, <<Cols(b), Cols(f)>>)
         THEN Raise("DimensionMismatch", "sub", Transpose(b))
    ELSE [err |-> "ok", at |-> "none", beta |-> Transpose(b),
          ret |-> Residual(b, x, f)]

\* the read of self.beta, torch.mm on shapes (A, F) and factors.shape, the
\* broadcast subtraction of the (A, T) product from input
forward(b, x, f) ==
    IF b.kind = "none" THEN Raise("AttributeError", "beta", b)
    ELSE IF ~MmAccepts(<<Cols(b), Rows(b)>>, f.shape)
         THEN Raise("DimensionMismatch", "mm", b)
    ELSE IF ~Broadcastable(x.shape, <<Cols(b), Cols(f)>>)
         THEN Raise("DimensionMismatch", "sub", b)
    ELSE [err |-> "ok", at |-> "none", beta |-> b, ret |-> Residual(b, x, f)]

\* calling what fit returned: Module.__call__ runs forward on that instance
CallModule(callee, b, x, f) ==
    IF callee.kind = "self" THEN forward(b, x, f)
    ELSE Raise("TypeError", "call", b)

\* fault: the two arguments are swapped in the call of the fitted instance
fit_forwardSwapped(b, x, f) ==
    LET fitted == fit(b, x, f)
    IN  IF fitted.err # "ok" THEN fitted
        ELSE CallModule(fitted.ret, fitted.beta, f, x)

\* return self.fit(input, factors)(input, factors)
fit_forward(b, x, f) ==
    LET fitted == fit(b, x, f)
    IN  IF fitted.err # "ok" THEN fitted
        ELSE CallModule(fitted.ret, fitted.beta, x, f)

(***************************************************************************)
(* State: beta is the instance's attribute (None until a fit stores it);   *)
(* input and factors are the caller's tensors; op, err, at and result      *)
(* describe the last call made with them (op = "none": no call since they  *)
(* were bound).  prior is a history variable: whether the instance held a  *)
(* beta when that call began.                                              *)
(***************************************************************************)
Fitted == beta.kind = "tensor"

Lifecycle == IF Fitted THEN "FITTED" ELSE "UNFITTED"

Init ==
    /\ beta = None
    /\ input \in InputTensors
    /\ factors \in FactorTensors
    /\ op = "none"
    /\ err = "none"
    /\ at = "none"
    /\ result = None
    /\ prior = "UNFITTED"

\* the caller binds another tensor to `input`
SetInput(t) ==
    /\ t # input
    /\ input' = t
    /\ op' = "none" /\ err' = "none" /\ at' = "none" /\ result' = None
    /\ prior' = Lifecycle
    /\ UNCHANGED <<beta, factors>>

\* the caller binds another tensor to `factors`
SetFactors(t) ==
    /\ t # factors
    /\ factors' = t
    /\ op' = "none" /\ err' = "none" /\ at' = "none" /\ result' = None
    /\ prior' = Lifecycle
    /\ UNCHANGED <<beta, input>>

Fit ==
    LET out == fit(beta, input, factors)
    IN  /\ op' = "fit"
        /\ err' = out.err /\ at' = out.at /\ result' = out.ret
        /\ beta' = out.beta
        /\ prior' = Lifecycle
        /\ UNCHANGED <<input, factors>>

Forward ==
    LET out == forward(beta, input, factors)
    IN  /\ op' = "forward"
        /\ err' = out.err /\ at' = out.at /\ result' = out.ret
        /\ beta' = out.beta
        /\ prior' = Lifecycle
        /\ UNCHANGED <<input, factors>>

FitForward ==
    LET out == fit_forward(beta, input, factors)
    IN  /\ op' = "fit_forward"
        /\ err' = out.err /\ at' = out.at /\ result' = out.ret
        /\ beta' = out.beta
        /\ prior' = Lifecycle
        /\ UNCHANGED <<input, factors>>

Next ==
    \/ \E t \in InputTensors : SetInput(t)
    \/ \E t \in FactorTensors : SetFactors(t)
    \/ Fit
    \/ Forward
    \/ FitForward

Spec == Init /\ [][Next]_vars

(***************************************************************************)
(* Properties.  In every state, op, err, at and result belong to a call    *)
(* made on the current `input` and `factors`: rebinding either resets op.  *)
(***************************************************************************)
BothHaveSteps == ndim(input) >= 1 /\ ndim(factors) >= 1

Both2D == ndim(input) = 2 /\ ndim(factors) = 2

\* the rows of a (rows, T) matrix are linearly independent
FullRowRank(f) == ndim(f) = 2 /\ Len(Rref(f, 1, 1, <<>>).pivots) = Rows(f)

\* fit and then forward as two separate calls on one instance; a failure of
\* fit ends the sequence
FitThenForward(b, x, f) ==
    LET first == fit(b, x, f)
    IN  IF first.err # "ok" THEN first ELSE forward(first.beta, x, f)

\* C1: a fit whose two inputs differ in the size of their last dimension
\* (the number of time steps) fails with ShapeMismatch, raised by the
\* time-step assertion, and returns nothing.
C1_MismatchFails ==
    (op = "fit" /\ BothHaveSteps /\ SizeLast(input) # SizeLast(factors))
        => (err = "ShapeMismatch" /\ at = "assert_steps" /\ result = None)

C1_Witness ==
    /\ op = "fit" /\ Both2D
    /\ SizeLast(input) # SizeLast(factors)
    /\ err = "ShapeMismatch"

\* C2, as stated: a fit in which either input is not 2-dimensional fails
\* with UnsupportedRank, whatever the sizes of the dimensions.
C2_RankAlwaysUnsupported ==
    (op = "fit" /\ ~Both2D) => err = "UnsupportedRank"

\* C2, amended: a fit in which either input is not 2-dimensional always
\* fails and returns nothing; the failure is UnsupportedRank when both
\* inputs have a last dimension and the two sizes are equal, ShapeMismatch
\* when the two sizes differ (that assertion is made first), and an index
\* error from the size lookup when an input has no dimension at all.
C2_RankFails ==
    (op = "fit" /\ ~Both2D)
        => /\ result = None
           /\ err = IF ~BothHaveSteps THEN "IndexError"
                    ELSE IF SizeLast(input) # SizeLast(factors) THEN "ShapeMismatch"
                    ELSE "UnsupportedRank"

C2_Witness ==
    /\ op = "fit" /\ ndim(input) = 3 /\ ndim(factors) = 2
    /\ SizeLast(input) = SizeLast(factors)
    /\ err = "UnsupportedRank"

\* C3, as stated: forward on an instance that was never fitted fails with
\* the linear-algebra layer's DimensionMismatch.
C3_UnfittedDimensionMismatch ==
    (op = "forward" /\ prior = "UNFITTED") => err = "DimensionMismatch"

\* C3, amended: forward on an instance that was never fitted fails, for
\* every pair of inputs, with an attribute error raised when the missing
\* beta is read, before any linear-algebra call; it returns no residual.
C3_UnfittedAttributeError ==
    (op = "forward" /\ prior = "UNFITTED")
        => (err = "AttributeError" /\ at = "beta" /\ result = None)

C3_Witness ==
    /\ op = "forward" /\ prior = "UNFITTED" /\ ~Fitted
    /\ Both2D /\ SizeLast(input) = SizeLast(factors)
    /\ err = "AttributeError"

\* C4: forward on a fitted instance with beta of shape (F, A), given 2-D
\* inputs with equal time-step counts: when the factor count differs from F
\* or the asset count differs from A, forward fails with a dimension
\* mismatch raised at the matrix multiplication and returns no residual.
C4_RowMismatchFails ==
    (/\ op = "forward" /\ Fitted /\ Both2D
     /\ SizeLast(input) = SizeLast(factors)
     /\ (Rows(factors) # Rows(beta) \/ Rows(input) # Cols(beta)))
        => (err = "DimensionMismatch" /\ at = "mm" /\ result = None)

\* C5: from any state, fit_forward ends as fit followed by forward on the
\* same inputs does: the same failure or the same residual, and the same
\* stored beta.
C5_FitForwardIsFitThenForward ==
    [][op' = "fit_forward"
         => LET both == FitThenForward(beta, input, factors)
            IN  /\ err' = both.err
                /\ at' = both.at
                /\ result' = both.ret
                /\ beta' = both.beta]_vars

C5_Witness ==
    /\ op = "fit_forward" /\ prior = "FITTED" /\ err = "ok"
    /\ result.kind = "tensor"
    /\ Rows(input) # Rows(factors)

\* C6: a successful fit stores a beta of shape (F, A) that is the beta a
\* fresh instance would compute from the same two inputs, whatever was
\* stored before; and nothing but a successful fit changes beta.
C6_FitOverwritesBeta ==
    [][/\ (op' = "fit" /\ err' = "ok")
            => /\ beta'.shape = <<Rows(factors), Rows(input)>>
               /\ beta' = fit(None, input, factors).beta
       /\ ~(op' \in {"fit", "fit_forward"} /\ err' = "ok") => beta' = beta]_vars

C6_Witness ==
    /\ op = "fit" /\ err = "ok" /\ prior = "FITTED"
    /\ beta.shape = <<Rows(factors), Rows(input)>>
    /\ Rows(factors) # Rows(input)

\* C7: forward leaves beta as it found it, whether it returns or fails, and
\* a second forward on the same inputs, with no fit in between, ends as the
\* first did.
C7_ForwardIsPure ==
    [][/\ op' = "forward" => beta' = beta
       /\ (op = "forward" /\ op' = "forward")
            => (err' = err /\ at' = at /\ result' = result)]_vars

C7_Witness ==
    /\ op = "forward" /\ err = "ok" /\ Fitted
    /\ result.kind = "tensor"
    /\ beta # Transpose(beta)

\* C8: when the factor returns have full row rank, forward on the inputs
\* just fitted returns a residual of the input's shape (A, T) whose product
\* with the transposed factor returns is the zero (A, F) matrix.
C8_ResidualOrthogonal ==
    [][(op = "fit" /\ err = "ok" /\ op' = "forward" /\ FullRowRank(factors))
         => /\ err' = "ok"
            /\ result'.shape = <<Rows(input), Cols(input)>>
            /\ MatMul(result', Transpose(factors))
                 = Zeros(<<Rows(input), Rows(factors)>>)]_vars

C8_Witness ==
    /\ op = "forward" /\ err = "ok" /\ Both2D
    /\ SizeLast(input) = SizeLast(factors)
    /\ FullRowRank(factors) /\ Rows(factors) = 2
    /\ beta = FitBeta(input, factors)
    /\ result # Zeros(result.shape)
    /\ MatMul(result, Transpose(factors)) = Zeros(<<Rows(input), Rows(factors)>>)

\* C9: the instance starts UNFITTED, with no beta; it becomes FITTED only
\* in a successful fit or fit_forward; once FITTED it stays FITTED, beta
\* being a 2-D tensor; and forward returns a residual only when FITTED.
C9_Lifecycle ==
    /\ beta = None
    /\ [][/\ (~Fitted /\ Fitted') => (op' \in {"fit", "fit_forward"} /\ err' = "ok")
          /\ Fitted => (Fitted' /\ ndim(beta') = 2)
          /\ ~Fitted' => beta' = None
          /\ (op' = "forward" /\ err' = "ok") => (Fitted /\ result'.kind = "tensor")
          /\ (op' = "forward" /\ ~Fitted) => err' # "ok"]_vars

C9_Witness ==
    /\ op = "fit_forward" /\ prior = "UNFITTED" /\ Fitted
    /\ err = "ok" /\ result.kind = "tensor"

\* C10: a fit or fit_forward that fails leaves beta as it was: no beta on
\* an unfitted instance, the beta of the last successful fit on a fitted one.
C10_FailedFitKeepsBeta ==
    [][(op' \in {"fit", "fit_forward"} /\ err' # "ok")
         => (beta' = beta /\ result' = None)]_vars

C10_Witness ==
    /\ op = "fit" /\ prior = "FITTED" /\ Fitted
    /\ err \in {"ShapeMismatch", "UnsupportedRank"}

====
